---- MODULE Spec2Model ----
(***************************************************************************)
(* Latent keyframe nodes (control/latent_keyframe_nodes.py): the four      *)
(* entrypoints that build a LatentKeyframeGroupImport                      *)
(*   - LatentKeyframeNodeImport.load_keyframe            (single add)      *)
(*   - LatentKeyframeGroupNodeImport.load_keyframes      (parsed string)   *)
(*   - LatentKeyframeInterpolationNodeImport.load_keyframe (curve)         *)
(*   - LatentKeyframeBatchedGroupNodeImport.load_keyframe  (batched)       *)
(* Collections are objects on a heap, so that aliasing and in-place        *)
(* mutation are visible.  Strengths are exact numbers: a rational n/d plus *)
(* an optional term -(a)*cos(pi*j/m) for the ease-in-out points whose      *)
(* cosine is irrational.  Strings are sequences of one-character strings.  *)
(***************************************************************************)
EXTENDS Integers, Sequences, FiniteSets, TLC

VARIABLES heap, cur, prevRef, retRef, prevBefore, op, args, gen, status, ncalls

vars == <<heap, cur, prevRef, retRef, prevBefore, op, args, gen, status, ncalls>>

(***************************************************************************)
(* Bounds of the model.                                                    *)
(***************************************************************************)
MaxCalls == 3
MaxIndex == 1
MaxCount == 5
MaxBatch == 2
MaxCurveIndex == 5
MaxLast == 5

(***************************************************************************)
(* Exact numbers.                                                          *)
(***************************************************************************)
Abs(x) == IF x < 0 THEN -x ELSE x

RECURSIVE GCD(_, _)
GCD(a, b) == IF b = 0 THEN a ELSE GCD(b, a % b)

\* the rational n/d (d > 0) in lowest terms, as a strength value
Rat(n, d) == [n |-> n \div GCD(Abs(n), d), d |-> d \div GCD(Abs(n), d), c |-> <<>>]

Zero == Rat(0, 1)
One == Rat(1, 1)
Half == Rat(1, 2)

RAdd(x, y) == Rat(x.n * y.d + y.n * x.d, x.d * y.d)
RSub(x, y) == Rat(x.n * y.d - y.n * x.d, x.d * y.d)
RMul(x, y) == Rat(x.n * y.n, x.d * y.d)
RDivInt(x, k) == Rat(x.n, x.d * k)
RLess(x, y) == x.n * y.d < y.n * x.d
RLeq(x, y) == x.n * y.d <= y.n * x.d

\* cos(pi * j/m) for 0 <= j <= m, m > 0, where it is rational (Niven);
\* the empty sequence where it is not
CosPi(j, m) ==
    IF j = 0 THEN <<Rat(1, 1)>>
    ELSE IF j = m THEN <<Rat(-1, 1)>>
    ELSE IF 2 * j = m THEN <<Rat(0, 1)>>
    ELSE IF 3 * j = m THEN <<Rat(1, 2)>>
    ELSE IF 3 * j = 2 * m THEN <<Rat(-1, 2)>>
    ELSE <<>>

(***************************************************************************)
(* Strings: sequences of characters.                                       *)
(***************************************************************************)
Digits == <<"0", "1", "2", "3", "4", "5", "6", "7", "8", "9">>

IsDigit(ch) == \E i \in 1..10 : Digits[i] = ch

DigitVal(ch) == (CHOOSE i \in 1..10 : Digits[i] = ch) - 1

RangeOf(s) == {s[i] : i \in 1..Len(s)}

\* str.strip(): leading and trailing blanks removed
RECURSIVE Strip(_)
Strip(s) ==
    IF s = <<>> THEN s
    ELSE IF Head(s) = " " THEN Strip(Tail(s))
    ELSE IF s[Len(s)] = " " THEN Strip(SubSeq(s, 1, Len(s) - 1))
    ELSE s

\* position of the first sep in s, 0 when there is none
FindFirst(s, sep) ==
    IF \E i \in 1..Len(s) : s[i] = sep
    THEN CHOOSE i \in 1..Len(s) : s[i] = sep /\ \A j \in 1..(i - 1) : s[j] # sep
    ELSE 0

\* str.split(sep): every piece, empty pieces included
RECURSIVE Split(_, _)
SplitAt(s, sep, i) ==
    IF i = 0 THEN <<s>>
    ELSE <<SubSeq(s, 1, i - 1)>> \o Split(SubSeq(s, i + 1, Len(s)), sep)

Split(s, sep) == SplitAt(s, sep, FindFirst(s, sep))

\* str.split(sep, 1) of a string that holds sep: the two sides of the first sep
SplitOnce(s, sep) ==
    <<SubSeq(s, 1, FindFirst(s, sep) - 1), SubSeq(s, FindFirst(s, sep) + 1, Len(s))>>

RECURSIVE DigitsVal(_, _)
DigitsVal(s, acc) ==
    IF s = <<>> THEN acc ELSE DigitsVal(Tail(s), 10 * acc + DigitVal(Head(s)))

AllDigits(s) == \A i \in 1..Len(s) : IsDigit(s[i])

RECURSIVE Pow10(_)
Pow10(k) == IF k = 0 THEN 1 ELSE 10 * Pow10(k - 1)

IsSigned(s) == s # <<>> /\ Head(s) \in {"-", "+"}

Unsigned(s) == IF IsSigned(s) THEN Tail(s) ELSE s

IntOfDigits(s, body) ==
    IF body = <<>> \/ ~AllDigits(body)
    THEN [ok |-> FALSE, val |-> 0]
    ELSE [ok |-> TRUE,
          val |-> IF Head(s) = "-" THEN -DigitsVal(body, 0) ELSE DigitsVal(body, 0)]

IntOfStripped(s) == IntOfDigits(s, Unsigned(s))

\* int(raw): blanks around the token, an optional sign, one or more digits
ParseInt(raw) == IntOfStripped(Strip(raw))

FloatOfDigits(s, whole, frac) ==
    IF whole \o frac = <<>> \/ ~AllDigits(whole \o frac)
    THEN [ok |-> FALSE, val |-> Zero]
    ELSE [ok |-> TRUE,
          val |-> IF Head(s) = "-"
                  THEN Rat(-DigitsVal(whole \o frac, 0), Pow10(Len(frac)))
                  ELSE Rat(DigitsVal(whole \o frac, 0), Pow10(Len(frac)))]

FloatOfBody(s, body, dot) ==
    IF dot = 0 THEN FloatOfDigits(s, body, <<>>)
    ELSE FloatOfDigits(s, SubSeq(body, 1, dot - 1), SubSeq(body, dot + 1, Len(body)))

FloatOfStripped(s) == FloatOfBody(s, Unsigned(s), FindFirst(Unsigned(s), "."))

\* float(raw): an optional sign, digits with at most one point, at least one digit
ParseFloat(raw) == FloatOfStripped(Strip(raw))

(***************************************************************************)
(* Keyframes and the keyframe collection (control.py, not in this file).   *)
(***************************************************************************)
LatentKeyframeImport(batch_index, strength) ==
    [batch_index |-> batch_index, strength |-> strength]

HasIndex(keyframes, i) == \E k \in 1..Len(keyframes) : keyframes[k].batch_index = i

\* LatentKeyframeGroupImport.add: the first keyframe stored for an index stays
Add(keyframes, keyframe) ==
    IF HasIndex(keyframes, keyframe.batch_index)
    THEN keyframes
    ELSE Append(keyframes, keyframe)

\* for k in seq: group.add(k)
RECURSIVE AddAll(_, _)
AddAll(keyframes, seq) ==
    IF seq = <<>> THEN keyframes ELSE AddAll(Add(keyframes, Head(seq)), Tail(seq))

\* "not prev_latent_keyframe": None, or a collection that holds nothing
Falsy(h, p) == p = 0 \/ h[p] = <<>>

\* "if not prev_latent_keyframe: prev_latent_keyframe = LatentKeyframeGroupImport()":
\* the heap afterwards, and the collection prev_latent_keyframe then names
WithPrev(h, p) == IF Falsy(h, p) THEN Append(h, <<>>) ELSE h

PrevOf(h, p) == IF Falsy(h, p) THEN Len(h) + 1 ELSE p

\* a call that raises after it allocated curr_latent_keyframe on heap h1
Raised(h1, kind) == [status |-> kind, heap |-> Append(h1, <<>>), ret |-> 0, gen |-> <<>>]

\* a call that raises before it allocated anything
Rejected(h, kind) == [status |-> kind, heap |-> h, ret |-> 0, gen |-> <<>>]

\* the fold done the other way round: the fresh keyframes are added into prev
\* itself, and prev is returned
FoldedIntoPrev(h1, prev, fresh) ==
    [status |-> "ok",
     heap |-> [h1 EXCEPT ![prev] = AddAll(h1[prev], fresh)],
     ret |-> prev,
     gen |-> fresh]

\* curr_latent_keyframe = LatentKeyframeGroupImport(); the fresh keyframes are
\* added to it, then those of prev; curr is returned
Folded(h1, prev, fresh) ==
    [status |-> "ok",
     heap |-> Append(h1, AddAll(AddAll(<<>>, fresh), h1[prev])),
     ret |-> Len(h1) + 1,
     gen |-> fresh]

(***************************************************************************)
(* LatentKeyframeGroupNodeImport: the index/strength mini-language.        *)
(***************************************************************************)
Ok(v) == [status |-> "ok", val |-> v]
Err(kind) == [status |-> kind, val |-> 0]

\* validate_index with the upper limit one too high
ValidateIndexOffByOne(index, latent_count, is_range, allow_negative) ==
    IF is_range THEN Ok(index)
    ELSE IF latent_count > 0 /\ index > latent_count THEN Err("IndexError")
    ELSE IF index < 0
         THEN IF ~allow_negative THEN Err("IndexError")
              ELSE IF latent_count + index < 0 THEN Err("IndexError")
              ELSE Ok(latent_count + index)
         ELSE Ok(index)

\* the index a token resolves to, or the IndexError it raises
validate_index(index, latent_count, is_range, allow_negative) ==
    IF is_range THEN Ok(index)
    ELSE IF latent_count > 0 /\ index > latent_count - 1 THEN Err("IndexError")
    ELSE IF index < 0
         THEN IF ~allow_negative THEN Err("IndexError")
              ELSE IF latent_count + index < 0 THEN Err("IndexError")
              ELSE Ok(latent_count + index)
         ELSE Ok(index)

ValidateParsed(p, latent_count, is_range, allow_negative) ==
    IF ~p.ok THEN Err("ValueError")
    ELSE validate_index(p.val, latent_count, is_range, allow_negative)

convert_to_index_int(raw_index, latent_count, is_range, allow_negative) ==
    ValidateParsed(ParseInt(raw_index), latent_count, is_range, allow_negative)

\* a slice bound x of a list of n items, as list slicing resolves it
SliceBound(x, n) ==
    IF x < 0 THEN (IF x + n < 0 THEN 0 ELSE x + n) ELSE (IF x > n THEN n ELSE x)

ListLen(latent_count) == IF latent_count > 0 THEN latent_count ELSE 0

\* all_indeces[start:end] for all_indeces = [0, ..., latent_count-1]
SliceOfRange(latent_count, start, end) ==
    {i \in 0..(ListLen(latent_count) - 1) :
        /\ SliceBound(start, ListLen(latent_count)) <= i
        /\ i < SliceBound(end, ListLen(latent_count))}

NoKeyframes(kind) == [status |-> kind, kfs |-> {}]

\* the range branch; LatentKeyframImport is no name of the module, so the
\* first index of the slice raises NameError
RangeGroup(start_index, end_index, latent_count) ==
    IF start_index.status # "ok" THEN NoKeyframes(start_index.status)
    ELSE IF end_index.status # "ok" THEN NoKeyframes(end_index.status)
    ELSE IF SliceOfRange(latent_count, start_index.val, end_index.val) # {}
    THEN NoKeyframes("NameError")
    ELSE NoKeyframes("ok")

\* the individual-index branch
PlainGroup(index, strength) ==
    IF index.status # "ok" THEN NoKeyframes(index.status)
    ELSE [status |-> "ok", kfs |-> {LatentKeyframeImport(index.val, strength)}]

GroupBody(g, strength, latent_count) ==
    IF ":" \in RangeOf(g)
    THEN RangeGroup(
            convert_to_index_int(Strip(SplitOnce(g, ":")[1]), latent_count, TRUE,
                                 latent_count > 0),
            convert_to_index_int(Strip(SplitOnce(g, ":")[2]), latent_count, TRUE,
                                 latent_count > 0),
            latent_count)
    ELSE PlainGroup(convert_to_index_int(g, latent_count, FALSE, latent_count > 0),
                    strength)

GroupWithStrength(g, parsed, latent_count) ==
    IF ~parsed.ok THEN NoKeyframes("ValueError")
    ELSE IF RLess(parsed.val, Zero)
    THEN NoKeyframes("ValueError")
    ELSE GroupBody(g, parsed.val, latent_count)

\* one pass of the loop over the groups: the keyframes it adds, or its error
ParseGroup(group, latent_count) ==
    IF "=" \in RangeOf(group)
    THEN GroupWithStrength(Strip(SplitOnce(group, "=")[1]),
                           ParseFloat(Strip(SplitOnce(group, "=")[2])), latent_count)
    ELSE GroupBody(group, One, latent_count)

RECURSIVE ParseGroups(_, _, _)
ParseNext(r, groups, chosen_indeces, latent_count) ==
    IF r.status # "ok" THEN r
    ELSE ParseGroups(Tail(groups), chosen_indeces \cup r.kfs, latent_count)

ParseGroups(groups, chosen_indeces, latent_count) ==
    IF groups = <<>> THEN [status |-> "ok", kfs |-> chosen_indeces]
    ELSE ParseNext(ParseGroup(Head(groups), latent_count), groups, chosen_indeces,
                   latent_count)

StripAll(groups) == [i \in 1..Len(groups) |-> Strip(groups[i])]

convert_to_latent_keyframes(latent_indeces, latent_count) ==
    IF latent_indeces = <<>> THEN [status |-> "ok", kfs |-> {}]
    ELSE ParseGroups(StripAll(Split(latent_indeces, ",")), {}, latent_count)

\* the orders in which a set can be iterated
Orders(S) ==
    {f \in [1..Cardinality(S) -> S] : \A i, j \in 1..Cardinality(S) : f[i] = f[j] => i = j}

GroupFold(h1, prev, parsed, order) ==
    IF parsed.status # "ok" THEN Raised(h1, parsed.status) ELSE Folded(h1, prev, order)

\* load_keyframes on heap h with previous collection p (0: None); order is the
\* iteration order of the parsed set
GroupLoadKeyframes(h, p, index_strengths, latent_count, order) ==
    GroupFold(WithPrev(h, p), PrevOf(h, p),
              convert_to_latent_keyframes(index_strengths, latent_count), order)

(***************************************************************************)
(* LatentKeyframeNodeImport.load_keyframe: the single add.                 *)
(***************************************************************************)
\* the keyframe appended to the list without going through add
AddedInPlaceAppend(h1, prev, keyframe) ==
    [status |-> "ok",
     heap |-> [h1 EXCEPT ![prev] = Append(h1[prev], keyframe)],
     ret |-> prev,
     gen |-> <<keyframe>>]

\* prev_latent_keyframe.add(keyframe); return (prev_latent_keyframe,)
AddedInPlace(h1, prev, keyframe) ==
    [status |-> "ok",
     heap |-> [h1 EXCEPT ![prev] = Add(h1[prev], keyframe)],
     ret |-> prev,
     gen |-> <<keyframe>>]

SingleLoadKeyframe(h, p, batch_index, strength) ==
    AddedInPlace(WithPrev(h, p), PrevOf(h, p), LatentKeyframeImport(batch_index, strength))

(***************************************************************************)
(* LatentKeyframeInterpolationNodeImport.load_keyframe: the curve.         *)
(***************************************************************************)
\* linspace that leaves the end point out (endpoint=False)
LinspaceNoEndpoint(start, stop, num) ==
    [k \in 1..num |->
        IF num = 1 THEN start
        ELSE RAdd(start, RDivInt(RMul(Rat(k - 1, 1), RSub(stop, start)), num))]

\* np.linspace(start, stop, num): num evenly spaced points, both ends included
Linspace(start, stop, num) ==
    [k \in 1..num |->
        IF num = 1 THEN start
        ELSE RAdd(start, RDivInt(RMul(Rat(k - 1, 1), RSub(stop, start)), num - 1))]

\* mid - half * cos(t * pi), kept symbolic where the cosine is irrational
MinusCos(mid, half, t, cs) ==
    IF cs # <<>> THEN RSub(mid, RMul(half, cs[1]))
    ELSE IF half.n = 0 THEN mid
    ELSE [n |-> mid.n, d |-> mid.d, c |-> <<half.n, half.d, t.n, t.d>>]

\* diff * ((1 - cos(t * pi)) / 2) + strength_from
EaseInOut(t, diff, strength_from) ==
    MinusCos(RAdd(strength_from, RDivInt(diff, 2)), RDivInt(diff, 2), t, CosPi(t.n, t.d))

\* diff * t^2 + strength_from
EaseIn(t, diff, strength_from) == RAdd(RMul(diff, RMul(t, t)), strength_from)

\* diff * (1 - (1 - t)^2) + strength_from
EaseOut(t, diff, strength_from) ==
    RAdd(RMul(diff, RSub(Rat(1, 1), RMul(RSub(Rat(1, 1), t), RSub(Rat(1, 1), t)))),
         strength_from)

Eased(index, diff, strength_from, interpolation) ==
    [k \in 1..Len(index) |->
        IF interpolation = "ease-in" THEN EaseIn(index[k], diff, strength_from)
        ELSE IF interpolation = "ease-out" THEN EaseOut(index[k], diff, strength_from)
        ELSE EaseInOut(index[k], diff, strength_from)]

Weights(index, strength_from, strength_to, interpolation) ==
    IF interpolation = "linear"
    THEN Linspace(strength_from, strength_to, Len(index))
    ELSE Eased(index, RSub(strength_to, strength_from), strength_from, interpolation)

Reverse(s) == [k \in 1..Len(s) |-> s[Len(s) + 1 - k]]

\* np.concatenate([weights, weights[::-1]]) when reverting at the midpoint
Mirrored(weights, revert_direction_at_midpoint) ==
    IF revert_direction_at_midpoint THEN weights \o Reverse(weights) ELSE weights

\* index = np.linspace(0, 1, steps // 2 + 1) if revert else np.linspace(0, 1, steps)
ProgressIndex(steps, revert_direction_at_midpoint) ==
    IF revert_direction_at_midpoint
    THEN Linspace(Rat(0, 1), Rat(1, 1), (steps \div 2) + 1)
    ELSE Linspace(Rat(0, 1), Rat(1, 1), steps)

CurveWeights(steps, strength_from, strength_to, interpolation, revert_direction_at_midpoint) ==
    Mirrored(Weights(ProgressIndex(steps, revert_direction_at_midpoint),
                     strength_from, strength_to, interpolation),
             revert_direction_at_midpoint)

\* np.arange(batch_index_from, batch_index_from + len(weights))
FrameNumbers(batch_index_from, n) == [k \in 1..n |-> batch_index_from + k - 1]

\* s[n:] and s[:-n] (n > 0)
DropFirst(s, n) == IF n >= Len(s) THEN <<>> ELSE SubSeq(s, n + 1, Len(s))
DropLast(s, n) == IF n >= Len(s) THEN <<>> ELSE SubSeq(s, 1, Len(s) - n)

\* the dropper for a negative start
NegativeStartDropper(s, batch_index_from) ==
    IF batch_index_from < 0 THEN DropFirst(s, Abs(batch_index_from)) ELSE s

\* the dropper for an end past last_key_frame_position
ExcessTailDropper(s, batch_index_to_excl, last_key_frame_position) ==
    IF batch_index_to_excl > last_key_frame_position
    THEN DropLast(s, batch_index_to_excl - last_key_frame_position)
    ELSE s

Droppers(s, batch_index_from, batch_index_to_excl, last_key_frame_position) ==
    ExcessTailDropper(NegativeStartDropper(s, batch_index_from),
                      batch_index_to_excl, last_key_frame_position)

\* batch_index_from = frame_numbers[0]; one keyframe per remaining frame
CurveKeyframes(frame_numbers, weights) ==
    [i \in 1..Len(frame_numbers) |->
        LatentKeyframeImport(frame_numbers[1] + (i - 1), weights[i])]

CurveFold(h1, prev, frame_numbers, weights) ==
    IF frame_numbers = <<>> THEN Raised(h1, "IndexError")
    ELSE Folded(h1, prev, CurveKeyframes(frame_numbers, weights))

CurveOfWeights(h, p, weights, batch_index_from, batch_index_to_excl, last_key_frame_position) ==
    CurveFold(WithPrev(h, p), PrevOf(h, p),
              Droppers(FrameNumbers(batch_index_from, Len(weights)), batch_index_from,
                       batch_index_to_excl, last_key_frame_position),
              Droppers(weights, batch_index_from, batch_index_to_excl,
                       last_key_frame_position))

CurveLoadKeyframe(h, p, batch_index_from, strength_from, batch_index_to_excl, strength_to, interpolation, revert_direction_at_midpoint, last_key_frame_position) ==
    IF batch_index_from > batch_index_to_excl THEN Rejected(h, "ValueError")
    ELSE IF batch_index_from < 0 /\ batch_index_to_excl >= 0 THEN Rejected(h, "ValueError")
    ELSE CurveOfWeights(h, p,
            CurveWeights(batch_index_to_excl - batch_index_from, strength_from,
                         strength_to, interpolation, revert_direction_at_midpoint),
            batch_index_from, batch_index_to_excl, last_key_frame_position)

(***************************************************************************)
(* LatentKeyframeBatchedGroupNodeImport.load_keyframe: the batched load.   *)
(* kind is the run-time type of strengths: "scalar" (float or int),        *)
(* "list" (an iterable) or "other".                                        *)
(***************************************************************************)
\* enumerate counting from 1
EnumeratedFromOne(strengths) ==
    [i \in 1..Len(strengths) |-> LatentKeyframeImport(i, strengths[i])]

\* for idx, strength in enumerate(strengths): LatentKeyframeImport(idx, strength)
Enumerated(strengths) ==
    [i \in 1..Len(strengths) |-> LatentKeyframeImport(i - 1, strengths[i])]

BatchedFold(h1, prev, kind, strengths) ==
    IF kind = "scalar" THEN Folded(h1, prev, <<>>)
    ELSE IF kind = "list" THEN Folded(h1, prev, Enumerated(strengths))
    ELSE Raised(h1, "ValueError")

BatchedLoadKeyframe(h, p, kind, strengths) ==
    BatchedFold(WithPrev(h, p), PrevOf(h, p), kind, strengths)

(***************************************************************************)
(* Inputs.                                                                 *)
(***************************************************************************)
RECURSIVE NatStr(_)
NatStr(n) ==
    IF n < 10 THEN <<Digits[n + 1]>> ELSE NatStr(n \div 10) \o <<Digits[(n % 10) + 1]>>

\* the decimal text of an integer
IntStr(i) == IF i < 0 THEN <<"-">> \o NatStr(-i) ELSE NatStr(i)

RangeStr(a, b) == IntStr(a) \o <<":">> \o IntStr(b)

NoArgs ==
    [batch_index |-> 0, strength |-> Zero,
     index_strengths |-> <<>>, latent_count |-> -1,
     batch_index_from |-> 0, batch_index_to_excl |-> 0,
     strength_from |-> Zero, strength_to |-> Zero,
     interpolation |-> "", revert_direction_at_midpoint |-> FALSE,
     last_key_frame_position |-> 0,
     kind |-> "", strengths |-> <<>>]

Interpolations == {"linear", "ease-in", "ease-out", "ease-in-out"}

SeqsUpTo(S, n) == UNION {[1..k -> S] : k \in 0..n}

\* inputs of the chained calls
ChainStrengths == {Half, One}
ChainGroups ==
    {IntStr(0), IntStr(MaxIndex) \o <<"=", "0", ".", "5">>, IntStr(-1) \o <<"=", "0">>,
     IntStr(0) \o <<"=", ".", "5">>, RangeStr(0, MaxIndex), <<"x">>}
ChainStrings ==
    {<<>>} \cup ChainGroups \cup {IntStr(0) \o <<"=", ".", "5", ",">> \o IntStr(0)}
ChainCounts == {-1, MaxIndex + 1}
BatchValues == {Rat(-1, 1), One}

\* inputs of the parser on its own
PlainGroups == {IntStr(i) : i \in (-(MaxCount + 1))..(MaxCount + 1)}
RangeGroups == {RangeStr(a, b) : a, b \in (-2)..MaxCount}
OddGroups ==
    {<<>>, <<"x">>, <<" ", "1", " ">>, <<"+", "1">>, <<"1", " ", "2">>,
     <<"1", ":", "2", ":", "3">>, <<"1", ".", "0">>, <<":">>}
Suffixes ==
    {<<>>, <<"=", "0", ".", "5">>, <<" ", "=", " ", "2">>, <<"=", "-", "1">>,
     <<"=", "x">>, <<"=", "1", "=", "1">>}
ParseStrings ==
    {g \o s : g \in PlainGroups \cup RangeGroups \cup OddGroups, s \in Suffixes}
    \cup {a \o <<",", " ">> \o b : a, b \in ChainGroups}
ParseCounts == ((-1)..MaxCount) \cup {10}

(***************************************************************************)
(* The state machine: one action per entrypoint call.  The collection      *)
(* returned by a call (cur) can be passed to the next call as its previous *)
(* collection; the objects no call can reach any more are dropped.         *)
(***************************************************************************)
Live == IF cur = 0 THEN <<>> ELSE <<heap[cur]>>

PrevChoices == IF cur = 0 THEN {0} ELSE {0, 1}

Returned(res, name, a, p) ==
    /\ heap' = res.heap
    /\ retRef' = res.ret
    /\ status' = res.status
    /\ gen' = res.gen
    /\ prevRef' = p
    /\ prevBefore' = IF p = 0 THEN <<>> ELSE Live[p]
    /\ op' = name
    /\ args' = a
    /\ cur' = IF res.status = "ok" THEN res.ret ELSE p
    /\ ncalls' = ncalls + 1

Init ==
    /\ heap = <<>>
    /\ cur = 0
    /\ prevRef = 0
    /\ retRef = 0
    /\ prevBefore = <<>>
    /\ op = "none"
    /\ args = NoArgs
    /\ gen = <<>>
    /\ status = "ok"
    /\ ncalls = 0

SingleCall ==
    /\ ncalls < MaxCalls
    /\ \E p \in PrevChoices, b \in (-1)..MaxIndex, s \in ChainStrengths :
         Returned(SingleLoadKeyframe(Live, p, b, s), "single",
                  [NoArgs EXCEPT !.batch_index = b, !.strength = s], p)

GroupCall(strings, counts, limit) ==
    /\ ncalls < limit
    /\ \E p \in PrevChoices, str \in strings, n \in counts :
         \E order \in Orders(convert_to_latent_keyframes(str, n).kfs) :
            Returned(GroupLoadKeyframes(Live, p, str, n, order), "group",
                     [NoArgs EXCEPT !.index_strengths = str, !.latent_count = n], p)

CurveCall(froms, tos, sfroms, stos, shapes, lasts, limit) ==
    /\ ncalls < limit
    /\ \E p \in PrevChoices, f \in froms, t \in tos, sf \in sfroms, st \in stos,
          ip \in shapes, rv \in BOOLEAN, last \in lasts :
         Returned(CurveLoadKeyframe(Live, p, f, sf, t, st, ip, rv, last), "curve",
                  [NoArgs EXCEPT !.batch_index_from = f, !.batch_index_to_excl = t,
                                 !.strength_from = sf, !.strength_to = st,
                                 !.interpolation = ip,
                                 !.revert_direction_at_midpoint = rv,
                                 !.last_key_frame_position = last], p)

BatchedCall ==
    /\ ncalls < MaxCalls
    /\ \E p \in PrevChoices, kind \in {"scalar", "list", "other"},
          ss \in SeqsUpTo(BatchValues, MaxBatch) :
         /\ kind # "list" => ss = <<>>
         /\ Returned(BatchedLoadKeyframe(Live, p, kind, ss), "batched",
                     [NoArgs EXCEPT !.kind = kind, !.strengths = ss], p)

ChainGroupCall == GroupCall(ChainStrings, ChainCounts, MaxCalls)

ChainCurveCall ==
    CurveCall({0}, 0..(MaxIndex + 1), {Zero}, {One}, {"linear"}, {MaxIndex + 1}, MaxCalls)

Next == SingleCall \/ ChainGroupCall \/ ChainCurveCall \/ BatchedCall

Spec == Init /\ [][Next]_vars

\* the parser on its own: one call on every input string and batch length
ParseCall == GroupCall(ParseStrings, ParseCounts, 1)

NextParse == ParseCall

SpecParse == Init /\ [][NextParse]_vars

\* the curve on its own: one call on every window, strength pair and shape
WideCurveCall ==
    CurveCall((-2)..MaxCurveIndex, (-2)..MaxCurveIndex, {Zero, Half, One},
              {Zero, Half, One}, Interpolations, 0..MaxLast, 1)

NextCurve == WideCurveCall

SpecCurve == Init /\ [][NextCurve]_vars

(***************************************************************************)
(* Properties.                                                             *)
(***************************************************************************)
IndicesOf(keyframes) == {keyframes[k].batch_index : k \in 1..Len(keyframes)}

StrengthsAt(keyframes, i) ==
    {keyframes[k].strength : k \in {j \in 1..Len(keyframes) : keyframes[j].batch_index = i}}

UniqueIndices(keyframes) ==
    \A j, k \in 1..Len(keyframes) :
        keyframes[j].batch_index = keyframes[k].batch_index => j = k

\* the strength of the first keyframe of seq at index i
FirstAt(seq, i) ==
    seq[CHOOSE k \in 1..Len(seq) :
            /\ seq[k].batch_index = i
            /\ \A j \in 1..(k - 1) : seq[j].batch_index # i].strength

Folding == op \in {"group", "curve", "batched"}

C2_PreviousTakesPrecedence ==
    (Folding /\ status = "ok" /\ prevRef # 0)
        => \A i \in IndicesOf(prevBefore) \cup IndicesOf(gen) :
              IF i \in IndicesOf(prevBefore)
              THEN StrengthsAt(heap[retRef], i) = StrengthsAt(prevBefore, i)
              ELSE StrengthsAt(heap[retRef], i) \subseteq StrengthsAt(gen, i)

\* C3: a plain index token i against batch length L fails with an index error
\* when L > 0 and i > L-1, when i < 0 and L <= 0, and when i < 0 and
\* i+L < 0; otherwise it yields exactly one keyframe, at i when i >= 0 and at
\* i+L when i < 0, with strength 1.0.
C3_PlainIndex ==
    \A i \in (-(MaxCount + 1))..(MaxCount + 1) :
        (op = "group" /\ args.index_strengths = IntStr(i))
            => IF args.latent_count > 0 /\ i > args.latent_count - 1
               THEN status = "IndexError"
               ELSE IF i < 0 /\ args.latent_count <= 0
               THEN status = "IndexError"
               ELSE IF i < 0 /\ i + args.latent_count < 0
               THEN status = "IndexError"
               ELSE /\ status = "ok"
                    /\ gen = <<LatentKeyframeImport(
                                 IF i >= 0 THEN i ELSE i + args.latent_count, One)>>
                    /\ heap[retRef] = gen

C3_Witness ==
    /\ op = "group"
    /\ args.index_strengths = <<"-", "1">>
    /\ args.latent_count = MaxCount
    /\ status = "ok"
    /\ IndicesOf(heap[retRef]) = {MaxCount - 1}

\* C4: a range group A:B, with or without =S, against batch length L
\* succeeds and yields one keyframe for every integer of [A, B) that lies in
\* 0..L-1, each with the group's strength (1.0 without =S).
C4_RangeExpansion ==
    \A a, b \in (-2)..MaxCount :
        /\ (op = "group" /\ args.index_strengths = RangeStr(a, b))
              => /\ status = "ok"
                 /\ {gen[k] : k \in 1..Len(gen)} =
                       {LatentKeyframeImport(i, One) :
                           i \in {j \in a..(b - 1) : 0 <= j /\ j < args.latent_count}}
        /\ (op = "group" /\ args.index_strengths = RangeStr(a, b) \o <<"=", "0", ".", "5">>)
              => /\ status = "ok"
                 /\ {gen[k] : k \in 1..Len(gen)} =
                       {LatentKeyframeImport(i, Half) :
                           i \in {j \in a..(b - 1) : 0 <= j /\ j < args.latent_count}}

\* C5: the batched call on a sequence s0..sn-1 without previous entries
\* returns a collection whose indices are exactly 0..n-1 and whose strength
\* at index i is si, negative values included.
C5_BatchedRoundTrip ==
    (op = "batched" /\ args.kind = "list" /\ prevBefore = <<>>)
        => /\ status = "ok"
           /\ Len(heap[retRef]) = Len(args.strengths)
           /\ IndicesOf(heap[retRef]) = 0..(Len(args.strengths) - 1)
           /\ \A i \in 1..Len(args.strengths) :
                 StrengthsAt(heap[retRef], i - 1) = {args.strengths[i]}

C5_Witness ==
    /\ op = "batched"
    /\ args.kind = "list"
    /\ prevRef = 0
    /\ Len(args.strengths) = MaxBatch
    /\ args.strengths[1] = Rat(-1, 1)
    /\ args.strengths[MaxBatch] = One
    /\ status = "ok"

LinearCase ==
    /\ op = "curve"
    /\ args.interpolation = "linear"
    /\ ~args.revert_direction_at_midpoint
    /\ args.batch_index_from >= 0
    /\ args.batch_index_to_excl - args.batch_index_from >= 2
    /\ args.batch_index_to_excl <= args.last_key_frame_position

\* strength_from + k * (strength_to - strength_from) / (steps - 1)
LinearStrength(k, steps) ==
    Rat((args.strength_from.n * args.strength_to.d * (steps - 1))
          + k * ((args.strength_to.n * args.strength_from.d)
                   - (args.strength_from.n * args.strength_to.d)),
        args.strength_from.d * args.strength_to.d * (steps - 1))

\* C6: a linear, non-revert curve with 0 <= index_from, steps >= 2 and
\* index_to_excl <= last_frame_position yields steps keyframes at the frames
\* index_from..index_to_excl-1, the k-th with strength
\* strength_from + k*(strength_to - strength_from)/(steps-1); the strengths do
\* not decrease when strength_from <= strength_to; (0, 5, 0.0, 1.0, last 5)
\* yields 0, 1/4, 1/2, 3/4, 1 at frames 0..4.
C6_LinearCurve ==
    /\ LinearCase =>
          /\ status = "ok"
          /\ Len(gen) = args.batch_index_to_excl - args.batch_index_from
          /\ \A k \in 0..(Len(gen) - 1) :
                gen[k + 1] = LatentKeyframeImport(args.batch_index_from + k,
                                                   LinearStrength(k, Len(gen)))
          /\ RLeq(args.strength_from, args.strength_to)
                => \A k \in 1..(Len(gen) - 1) : RLeq(gen[k].strength, gen[k + 1].strength)
          /\ heap[retRef] = gen
    /\ (/\ LinearCase
        /\ args.batch_index_from = 0 /\ args.batch_index_to_excl = 5
        /\ args.strength_from = Zero /\ args.strength_to = One
        /\ args.last_key_frame_position = 5)
          => gen = <<LatentKeyframeImport(0, Zero), LatentKeyframeImport(1, Rat(1, 4)),
                     LatentKeyframeImport(2, Half), LatentKeyframeImport(3, Rat(3, 4)),
                     LatentKeyframeImport(4, One)>>

C6_Witness ==
    /\ LinearCase
    /\ args.batch_index_from = 0 /\ args.batch_index_to_excl = 5
    /\ args.strength_from = Zero /\ args.strength_to = One
    /\ args.last_key_frame_position = 5
    /\ status = "ok"
    /\ Len(gen) = 5
    /\ gen[2].strength = Rat(1, 4)

\* C7: a non-revert curve call with index_from < 0 < index_to_excl <=
\* last_frame_position succeeds, drops the first abs(index_from) points and
\* returns keyframes at exactly the frames 0..index_to_excl-1.
C7_NegativeStartDrop ==
    (/\ op = "curve"
     /\ ~args.revert_direction_at_midpoint
     /\ args.batch_index_from < 0
     /\ 0 < args.batch_index_to_excl
     /\ args.batch_index_to_excl <= args.last_key_frame_position)
        => /\ status = "ok"
           /\ [k \in 1..Len(gen) |-> gen[k].batch_index]
                 = [k \in 1..args.batch_index_to_excl |-> k - 1]

\* C8: a non-revert curve call with index_from = index_to_excl completes
\* without error and generates nothing: the returned collection holds exactly
\* the entries of the previous collection.
C8_ZeroLengthWindow ==
    (/\ op = "curve"
     /\ ~args.revert_direction_at_midpoint
     /\ args.batch_index_from = args.batch_index_to_excl)
        => /\ status = "ok"
           /\ gen = <<>>
           /\ heap[retRef] = prevBefore

\* C9: in a curve call that returns a collection, reverting or not, every
\* fresh keyframe has a frame index f with 0 <= f < last_frame_position.
C9_FramesInsideWindow ==
    (op = "curve" /\ status = "ok")
        => \A k \in 1..Len(gen) :
              /\ 0 <= gen[k].batch_index
              /\ gen[k].batch_index < args.last_key_frame_position

\* C10 as stated: the parsed-string, curve and batched calls leave the
\* previous collection as it was, failing or not, and return another
\* collection; the single add puts its keyframe into the previous collection it
\* was given and returns that collection.
C10_Original ==
    /\ (Folding /\ prevRef # 0)
          => /\ heap[prevRef] = prevBefore
             /\ status = "ok" => retRef # prevRef
    /\ (op = "single" /\ prevRef # 0)
          => /\ retRef = prevRef
             /\ HasIndex(heap[prevRef], args.batch_index)

\* C10 amended: as stated, but the single add works in place only on a
\* previous collection that holds a keyframe; given one that holds none it
\* leaves it empty and returns another collection holding the keyframe.
C10_Amended ==
    /\ (Folding /\ prevRef # 0)
          => /\ heap[prevRef] = prevBefore
             /\ status = "ok" => retRef # prevRef
    /\ (op = "single" /\ prevRef # 0 /\ prevBefore # <<>>)
          => /\ retRef = prevRef
             /\ HasIndex(heap[prevRef], args.batch_index)
    /\ (op = "single" /\ prevRef # 0 /\ prevBefore = <<>>)
          => /\ retRef # prevRef
             /\ heap[prevRef] = <<>>
             /\ HasIndex(heap[retRef], args.batch_index)

C10_Witness ==
    /\ op = "batched"
    /\ prevRef # 0
    /\ prevBefore # <<>>
    /\ status = "ok"
    /\ IndicesOf(gen) \ IndicesOf(prevBefore) # {}
    /\ IndicesOf(gen) \cap IndicesOf(prevBefore) # {}

====
